---- MODULE Spec2Model ----
(***************************************************************************)
(* State-machine model of the staking supervisor of lib/mining/stdstaker.js *)
(* (STDStaker and STDJob).                                                  *)
(*                                                                         *)
(* One action is one run-to-completion piece of JavaScript: the code from   *)
(* one suspension point (await) of an async function to the next, or one    *)
(* synchronous call (an event handler, start(), notifyEntry()).  A promise  *)
(* continuation that only forwards a value to its caller (findNonceAsync -> *)
(* mineAsync -> _start) is taken in the same step as the settlement that    *)
(* triggers it.                                                             *)
(*                                                                         *)
(* Three units are modelled apart from the supervisor, each under its own   *)
(* specification: the kernel check of pos.js (KernelSpec),                  *)
(* the nonce search of mineAsync on one job (SearchSpec), and the stake     *)
(* searcher doStake (StakeSpec).                                            *)
(***************************************************************************)
EXTENDS Integers, Sequences, FiniteSets, TLC

\* ------------------------------------------------------------------ bounds
\* Jobs the supervisor may create in one behaviour.
MaxJobs == 2
\* The largest header nonce; stands for 0xffffffff of findNonce/findNonceAsync.
MaxNonce == 3
\* The divisor of the slice width; stands for the 1500 of STDStaker.INTERVAL.
IntervalDivisor == 2
\* Runs of findNonceAsync inside one mineAsync call.
MaxSearches == 5
\* Calls of updateNonce on one job inside the supervisor loop.
MaxUpdates == 1
\* The last second of the clock util.now().
MaxTime == 11
\* Concurrent callers of stop().
NumCallers == 2
\* The highest block of the chain handed to the kernel check.
MaxHeight == 3
\* The largest value of a staked output.
MaxValue == 4
\* The largest kernel hash, read as an integer.
MaxHash == 6
\* The largest target consensus.fromCompact returns.
MaxTarget == 2
\* Stands for consensus.STAKE_MIN_CONFIRMATIONS.
STAKE_MIN_CONFIRMATIONS == 2
\* The last second of the clock while doStake runs.
MaxStakeTime == 40
\* The most coins wallet.getCoins returns.
MaxCoins == 2
\* Passes of the outer loop of doStake in one call.
MaxPasses == 4

\* ------------------------------------------------------- program constants
\* notifyEntry: a job older than this many seconds is replaced.
STALE_AGE == 10

\* doStake: the stake time is a multiple of this many seconds.
STAKE_GRID == 16

\* STDStaker.INTERVAL = 0xffffffff / 1500 | 0
INTERVAL == MaxNonce \div IntervalDivisor

\* The 0x100000000 of updateNonce and getHashes: one more than 0xffffffff.
Nonce2Limit == MaxNonce + 1

\* ------------------------------------------------------------ value spaces
NoJob == 0
NoCaller == 0
NoBlock == <<>>
NoJobs == <<>>
NotFound == -1
NoError == "none"
NoEvent == <<"none">>
NotCalled == "none"
ErrorEvent == <<"error">>
BlockEvent(b) == <<"block", b>>
Callers == 1..NumCallers
Hashes == {1, 2}
TickSteps == {STALE_AGE, STALE_AGE + 1}
ErrorTypes == {"VerifyError", "Error"}

VARIABLES
  running,    \* this.running
  stopping,   \* this.stopping
  job,        \* this.job: the id of a job, or NoJob
  stopJob,    \* this.stopJob: the caller whose wait() promise it resolves, or NoCaller
  jobs,       \* the STDJob objects the program still references, by id
  njobs,      \* number of STDJob objects constructed so far; ids are 1..njobs
  workers,    \* whether this.workers is set
  loopPc,     \* where the _start activation is suspended
  max,        \* findNonceAsync: upper end of the slice in flight
  block,      \* _start: the block handed to chain.add
  loops,      \* number of _start activations that have not returned
  stopPc,     \* per caller: where its stop() call is
  locked,     \* this.locker: busy
  lockQueue,  \* this.locker: callers waiting for the lock, first in first out
  now,        \* util.now()
  thrown,     \* the assertion message raised by the step just taken, or NoError
  event,      \* the 'error' or 'block' event emitted by the step just taken
  mined,      \* the block commit returned in the step just taken
  logged,     \* the block whose raw serialization the step just taken logged
  settled,    \* what the promise _start awaited settled with in the step just taken
  errors      \* number of 'error' events emitted so far

\* The units the supervisor calls into, modelled one call at a time under
\* specifications of their own; the supervisor's actions leave them alone.
VARIABLES
  kernel,     \* checkStakeKernelHash: its arguments and what it returned
  search,     \* mineAsync on one job: the job, its search and what it reported
  stake       \* doStake on one job: its locals and what it returned

units == <<kernel, search, stake>>

supervisor == <<running, stopping, job, stopJob>>
loopVars == <<loopPc, max, block, loops>>
stopVars == <<stopPc, locked, lockQueue>>
heap == <<jobs, njobs>>
outputs == <<event, mined, logged, settled>>
vars == <<supervisor, heap, workers, units, loopVars, stopVars, now, thrown,
          outputs, errors, units>>

\* The step just taken emitted nothing, returned no block and logged none.
Silent ==
  /\ event' = NoEvent
  /\ mined' = NoBlock
  /\ logged' = NoBlock
  /\ settled' = "none"

\* --------------------------------------------------------------- STDJob
\* new STDJob(miner, attempt), attempt built on the block with hash h
STDJob(h, t) ==
  [destroyed |-> FALSE, committed |-> FALSE, start |-> t,
   prevBlock |-> h, nonce1 |-> 0, nonce2 |-> 0]

\* STDJob.prototype.destroy, past its assertion
destroy(jb) == [jb EXCEPT !.destroyed = TRUE]

\* Mutant of canCommit: the assertion on the committed flag is missing.
canCommitUnasserted(jb) == TRUE

\* STDJob.prototype.commit / commitCnTxTime: what lets the call pass its assertion
canCommit(jb) == ~jb.committed

\* STDJob.prototype.commit / commitCnTxTime, past the assertion: the flag
commit(jb) == [jb EXCEPT !.committed = TRUE]

\* Mutant of updateNonce: nonce2 rolls over without a carry into nonce1.
updateNonceNoCarry(jb) ==
  IF jb.nonce2 + 1 = Nonce2Limit
    THEN [jb EXCEPT !.nonce2 = 0]
    ELSE [jb EXCEPT !.nonce2 = jb.nonce2 + 1]

\* STDJob.prototype.updateNonce
updateNonce(jb) ==
  IF jb.nonce2 + 1 = Nonce2Limit
    THEN [jb EXCEPT !.nonce2 = 0, !.nonce1 = jb.nonce1 + 1]
    ELSE [jb EXCEPT !.nonce2 = jb.nonce2 + 1]

\* The block attempt.commit(proof) returns for job j: proof = (n1, n2, ts, nonce)
Block(j, jb, nonce) == <<j, jb.nonce1, jb.nonce2, nonce>>

\* The job mineAsync was called with: _start passes this.job right after
\* createJob resolved, so it is the job constructed last.
mineJob == njobs

Init ==
  /\ running = FALSE
  /\ stopping = FALSE
  /\ job = NoJob
  /\ stopJob = NoCaller
  /\ jobs = NoJobs
  /\ njobs = 0
  /\ workers \in BOOLEAN
  /\ loopPc = "idle"
  /\ max = 0
  /\ block = NoBlock
  /\ loops = 0
  /\ stopPc = [c \in Callers |-> "idle"]
  /\ locked = FALSE
  /\ lockQueue = <<>>
  /\ now = 0
  /\ thrown = NoError
  /\ event = NoEvent
  /\ mined = NoBlock
  /\ logged = NoBlock
  /\ settled = "none"
  /\ errors = 0

\* ------------------------------------------------------- _start: fragments
\* Lines 200-205: the loop was left by break; a pending stopped signal is
\* resolved, which makes the awaiting _stop call resumable.
LoopExit ==
  /\ loopPc' = "done"
  /\ loops' = loops - 1
  /\ stopJob' = NoCaller
  /\ stopPc' = [c \in Callers |-> IF c = stopJob THEN "resolved" ELSE stopPc[c]]

\* break: the locals of the iteration die with it; this.job stays.
Break ==
  /\ LoopExit
  /\ max' = 0
  /\ block' = NoBlock
  /\ UNCHANGED job

\* continue: lines 138-143, up to the await of createJob.  The job of the
\* iteration that ends is referenced no more.
Continue ==
  /\ job' = NoJob
  /\ jobs' = NoJobs
  /\ loopPc' = "createJob"
  /\ max' = 0
  /\ block' = NoBlock
  /\ UNCHANGED <<loops, stopJob, stopPc>>

\* Line 170: chain.add(b) is called and awaited.
Submit(b) ==
  /\ loopPc' = "add"
  /\ block' = b
  /\ max' = 0
  /\ UNCHANGED <<job, loops, stopJob, stopPc>>

\* Mutant of CatchBreak: the catch clauses emit 'error' without looking at
\* stopping.
CatchBreakEmitAlways ==
  /\ event' = ErrorEvent
  /\ errors' = errors + 1
  /\ Break

\* The catch clauses of lines 144-149 and 156-161, and lines 172-173 and
\* 181-182 of the third: nothing is emitted when stopping.
CatchBreak ==
  /\ event' = IF stopping THEN NoEvent ELSE ErrorEvent
  /\ errors' = IF stopping THEN errors ELSE errors + 1
  /\ Break

\* Lines 163-170: what _start does with the block b mineAsync returned,
\* mineAsync having left the jobs as js.
AfterMine(b, js) ==
  IF stopping
    THEN Break /\ jobs' = js
    ELSE IF b = NoBlock THEN Continue ELSE Submit(b) /\ jobs' = js

\* findNonceAsync lines 476-485 (and 440-449): the first slice is requested.
FirstSlice ==
  /\ loopPc' = "search"
  /\ max' = INTERVAL

\* mineAsync lines 540-553 from the point findNonceAsync has returned nonce,
\* followed by the continuation of _start.
MineAsyncResume(nonce) ==
  LET j == mineJob
      jb == jobs[j]
  IN IF nonce # NotFound
       THEN IF ~canCommit(jb)
              THEN CatchBreak /\ mined' = NoBlock /\ UNCHANGED jobs
              ELSE /\ mined' = Block(j, jb, nonce)
                   /\ event' = NoEvent
                   /\ errors' = errors
                   /\ AfterMine(Block(j, jb, nonce), [jobs EXCEPT ![j] = commit(jb)])
       ELSE IF jb.destroyed
              THEN /\ mined' = NoBlock
                   /\ event' = NoEvent
                   /\ errors' = errors
                   /\ AfterMine(NoBlock, jobs)
              ELSE /\ jb.nonce1 * Nonce2Limit + jb.nonce2 < MaxUpdates
                   /\ jobs' = [jobs EXCEPT ![j] = updateNonce(jb)]
                   /\ FirstSlice
                   /\ mined' = NoBlock
                   /\ event' = NoEvent
                   /\ UNCHANGED <<job, loops, stopJob, stopPc, block, errors>>

\* The upper end of the last slice findNonce asks mine for: the loop of lines
\* 415-425 run from max = m without a hit.
RECURSIVE SlicesEnd(_)
SlicesEnd(m) == IF m + INTERVAL <= MaxNonce THEN SlicesEnd(m + INTERVAL) ELSE m

\* ---------------------------------------------------------------- actions
\* Mutant of Start: the assertions of lines 118 and 132 are missing.
StartUnasserted ==
  /\ running' = TRUE
  /\ stopping' = FALSE
  /\ job' = NoJob
  /\ loopPc' = "createJob"
  /\ loops' = loops + 1
  /\ max' = 0
  /\ block' = NoBlock
  /\ thrown' = NoError
  /\ Silent
  /\ UNCHANGED <<stopJob, heap, workers, units, stopVars, now, errors>>

\* start(), lines 117-120, with _start up to its first await (129-143).
Start ==
  /\ ~running
  /\ running' = TRUE
  /\ stopping' = FALSE
  /\ job' = NoJob
  /\ loopPc' = "createJob"
  /\ loops' = loops + 1
  /\ max' = 0
  /\ block' = NoBlock
  /\ thrown' = NoError
  /\ Silent
  /\ UNCHANGED <<stopJob, heap, workers, units, stopVars, now, errors>>

\* start() while running: the assertion of line 118 throws.
StartRejected ==
  /\ running
  /\ thrown' = "Miner is already running."
  /\ Silent
  /\ UNCHANGED <<supervisor, heap, workers, units, loopVars, stopVars, now, errors>>

\* createJob resolves (line 143) with a job on the block with hash h; when
\* not stopping, mineAsync is called (line 155, 537-540).
CreateJobResolve(h) ==
  /\ loopPc = "createJob"
  /\ njobs < MaxJobs
  /\ njobs' = njobs + 1
  /\ jobs' = (njobs + 1) :> STDJob(h, now)
  /\ IF stopping
       THEN LoopExit /\ max' = 0 /\ block' = NoBlock
       ELSE FirstSlice /\ UNCHANGED <<loops, stopJob, stopPc, block>>
  /\ job' = njobs + 1
  /\ thrown' = NoError
  /\ event' = NoEvent
  /\ mined' = NoBlock
  /\ logged' = NoBlock
  /\ settled' = "job"
  /\ UNCHANGED <<running, stopping, workers, units, locked, lockQueue, now, errors>>

\* createJob rejects (lines 144-149).
CreateJobReject ==
  /\ loopPc = "createJob"
  /\ settled' = "createJobError"
  /\ CatchBreak
  /\ thrown' = NoError
  /\ mined' = NoBlock
  /\ logged' = NoBlock
  /\ UNCHANGED <<running, stopping, heap, workers, units, locked, lockQueue, now>>

\* Mutant of WorkerSliceResolve: the check of job.destroyed (lines 490-491)
\* is missing.
WorkerSliceResolveUnchecked(nonce) ==
  /\ loopPc = "search"
  /\ workers
  /\ nonce \in {NotFound} \cup (max - INTERVAL)..(max - 1)
  /\ settled' = IF nonce = NotFound THEN "miss" ELSE "nonce"
  /\ IF nonce = NotFound /\ max + INTERVAL <= MaxNonce
       THEN /\ max' = max + INTERVAL
            /\ mined' = NoBlock
            /\ event' = NoEvent
            /\ UNCHANGED <<job, jobs, loopPc, loops, stopJob, stopPc, block, errors>>
       ELSE MineAsyncResume(nonce)
  /\ thrown' = NoError
  /\ logged' = NoBlock
  /\ UNCHANGED <<running, stopping, njobs, workers, units, locked, lockQueue, now>>

\* this.workers.mine resolves with nonce (lines 485-499), a nonce of the
\* slice [max - INTERVAL, max) or -1.
WorkerSliceResolve(nonce) ==
  /\ loopPc = "search"
  /\ workers
  /\ nonce \in {NotFound} \cup (max - INTERVAL)..(max - 1)
  /\ settled' = IF nonce = NotFound THEN "miss" ELSE "nonce"
  /\ IF nonce = NotFound /\ ~jobs[mineJob].destroyed /\ max + INTERVAL <= MaxNonce
       THEN /\ max' = max + INTERVAL
            /\ mined' = NoBlock
            /\ event' = NoEvent
            /\ UNCHANGED <<job, jobs, loopPc, loops, stopJob, stopPc, block, errors>>
       ELSE MineAsyncResume(nonce)
  /\ thrown' = NoError
  /\ logged' = NoBlock
  /\ UNCHANGED <<running, stopping, njobs, workers, units, locked, lockQueue, now>>

\* Without workers findNonceAsync returns findNonce(job) (lines 481-482,
\* 407-428): every slice is searched within the call.
FindNonceResolve(nonce) ==
  /\ loopPc = "search"
  /\ ~workers
  /\ nonce \in {NotFound} \cup 0..(SlicesEnd(INTERVAL) - 1)
  /\ settled' = IF nonce = NotFound THEN "miss" ELSE "nonce"
  /\ MineAsyncResume(nonce)
  /\ thrown' = NoError
  /\ logged' = NoBlock
  /\ UNCHANGED <<running, stopping, njobs, workers, units, locked, lockQueue, now>>

\* The search throws: mine, or the worker pool, fails (lines 156-161).
SearchReject ==
  /\ loopPc = "search"
  /\ settled' = "searchError"
  /\ CatchBreak
  /\ thrown' = NoError
  /\ mined' = NoBlock
  /\ logged' = NoBlock
  /\ UNCHANGED <<running, stopping, heap, workers, units, locked, lockQueue, now>>

\* Mutant of ChainAddResolve: the block is logged and emitted before the
\* stopping check of lines 190-191.
ChainAddResolveEmitFirst(entry) ==
  /\ loopPc = "add"
  /\ settled' = IF entry THEN "entry" ELSE "null"
  /\ IF ~entry
       THEN Continue /\ event' = NoEvent /\ logged' = NoBlock
       ELSE /\ logged' = block
            /\ event' = BlockEvent(block)
            /\ IF stopping THEN Break /\ UNCHANGED jobs ELSE Continue
  /\ thrown' = NoError
  /\ mined' = NoBlock
  /\ UNCHANGED <<running, stopping, njobs, workers, units, locked, lockQueue, now, errors>>

\* chain.add resolves (lines 170, 185-198): with an entry, or with null.
ChainAddResolve(entry) ==
  /\ loopPc = "add"
  /\ settled' = IF entry THEN "entry" ELSE "null"
  /\ IF ~entry
       THEN Continue /\ event' = NoEvent /\ logged' = NoBlock
       ELSE IF stopping
              THEN Break /\ event' = NoEvent /\ logged' = NoBlock /\ UNCHANGED jobs
              ELSE /\ logged' = block
                   /\ event' = BlockEvent(block)
                   /\ Continue
  /\ thrown' = NoError
  /\ mined' = NoBlock
  /\ UNCHANGED <<running, stopping, njobs, workers, units, locked, lockQueue, now, errors>>

\* Mutant of ChainAddReject: a VerifyError is handled like any other error.
ChainAddRejectAllFatal(type) ==
  /\ loopPc = "add"
  /\ settled' = type
  /\ CatchBreak /\ UNCHANGED jobs
  /\ thrown' = NoError
  /\ mined' = NoBlock
  /\ logged' = NoBlock
  /\ UNCHANGED <<running, stopping, njobs, workers, units, locked, lockQueue, now>>

\* chain.add rejects (lines 171-183).
ChainAddReject(type) ==
  /\ loopPc = "add"
  /\ settled' = type
  /\ IF ~stopping /\ type = "VerifyError"
       THEN Continue /\ event' = NoEvent /\ UNCHANGED errors
       ELSE CatchBreak /\ UNCHANGED jobs
  /\ thrown' = NoError
  /\ mined' = NoBlock
  /\ logged' = NoBlock
  /\ UNCHANGED <<running, stopping, njobs, workers, units, locked, lockQueue, now>>

\* ------------------------------------------------------------------- stop
\* unlock() of the stop lock by caller c, whose call ends: the first queued
\* caller, if any, is handed the lock.
Release(c) ==
  /\ stopPc' = [x \in Callers |->
                  IF x = c THEN "idle"
                  ELSE IF lockQueue # <<>> /\ x = Head(lockQueue) THEN "granted"
                  ELSE stopPc[x]]
  /\ locked' = (lockQueue # <<>>)
  /\ lockQueue' = IF lockQueue = <<>> THEN lockQueue ELSE Tail(lockQueue)

\* lock() of the stop lock by caller c: granted when the lock is free,
\* queued behind the earlier callers when it is busy.
Lock(c) ==
  IF locked
    THEN /\ lockQueue' = Append(lockQueue, c)
         /\ stopPc' = [stopPc EXCEPT ![c] = "queued"]
         /\ UNCHANGED locked
    ELSE /\ locked' = TRUE
         /\ stopPc' = [stopPc EXCEPT ![c] = "granted"]
         /\ UNCHANGED lockQueue

\* stop(), line 215: the lock is asked for.
Stop(c) ==
  /\ stopPc[c] = "idle"
  /\ Lock(c)
  /\ thrown' = NoError
  /\ Silent
  /\ UNCHANGED <<supervisor, heap, workers, units, loopVars, now, errors>>

\* stop(), lines 216-220, with _stop (229-243) and wait (256-261): caller c
\* holds the lock and runs _stop up to its await, its return or its throw.
LockGranted(c) ==
  /\ stopPc[c] = "granted"
  /\ IF ~running
       THEN /\ Release(c)
            /\ thrown' = NoError
            /\ UNCHANGED <<stopping, job, jobs, stopJob>>
       ELSE IF stopping
         THEN /\ Release(c)
              /\ thrown' = "Miner is already stopping."
              /\ UNCHANGED <<stopping, job, jobs, stopJob>>
         ELSE /\ stopping' = TRUE
              /\ IF job # NoJob /\ jobs[job].destroyed
                   THEN /\ Release(c)
                        /\ thrown' = "Job already destroyed."
                        /\ UNCHANGED <<job, jobs, stopJob>>
                   ELSE /\ jobs' = IF job = NoJob THEN jobs
                                   ELSE [jobs EXCEPT ![job] = destroy(jobs[job])]
                        /\ job' = NoJob
                        /\ IF stopJob # NoCaller
                             THEN /\ Release(c)
                                  /\ thrown' = "assert(!this.stopJob)"
                                  /\ UNCHANGED stopJob
                             ELSE /\ stopJob' = c
                                  /\ stopPc' = [stopPc EXCEPT ![c] = "waiting"]
                                  /\ thrown' = NoError
                                  /\ UNCHANGED <<locked, lockQueue>>
  /\ Silent
  /\ UNCHANGED <<running, njobs, workers, units, loopVars, now, errors>>

\* _stop, lines 245-247, then unlock (line 219): the stopped signal has been
\* resolved for caller c.
StopResume(c) ==
  /\ stopPc[c] = "resolved"
  /\ running' = FALSE
  /\ stopping' = FALSE
  /\ job' = NoJob
  /\ Release(c)
  /\ thrown' = NoError
  /\ Silent
  /\ UNCHANGED <<stopJob, heap, workers, units, loopVars, now, errors>>

\* ----------------------------------------------------------------- events
\* Mutant of tipMatches: the comparison of line 73 is inverted.
tipMatchesInverted(jb, h) == jb.prevBlock # h

\* The predicate of line 73.
tipMatches(jb, h) == jb.prevBlock = h

\* The chain's 'tip' handler (lines 69-75), for a tip whose prevBlock is h.
ChainTip(h) ==
  /\ IF job # NoJob /\ tipMatches(jobs[job], h)
       THEN IF jobs[job].destroyed
              THEN thrown' = "Job already destroyed." /\ UNCHANGED jobs
              ELSE /\ jobs' = [jobs EXCEPT ![job] = destroy(jobs[job])]
                   /\ thrown' = NoError
       ELSE thrown' = NoError /\ UNCHANGED jobs
  /\ Silent
  /\ UNCHANGED <<supervisor, njobs, workers, units, loopVars, stopVars, now, errors>>

\* The predicate of line 301.
isStale(jb, t) == t - jb.start > STALE_AGE

\* notifyEntry (lines 294-305).
NotifyEntry ==
  /\ IF running /\ job # NoJob /\ isStale(jobs[job], now)
       THEN IF jobs[job].destroyed
              THEN /\ thrown' = "Job already destroyed."
                   /\ UNCHANGED <<job, jobs>>
              ELSE /\ jobs' = [jobs EXCEPT ![job] = destroy(jobs[job])]
                   /\ job' = NoJob
                   /\ thrown' = NoError
       ELSE thrown' = NoError /\ UNCHANGED <<job, jobs>>
  /\ Silent
  /\ UNCHANGED <<running, stopping, stopJob, njobs, workers, units, loopVars,
                 stopVars, now, errors>>

\* util.now() advances.
Tick(d) ==
  /\ now + d <= MaxTime
  /\ now' = now + d
  /\ thrown' = NoError
  /\ Silent
  /\ UNCHANGED <<supervisor, heap, workers, units, loopVars, stopVars, errors>>

\* ---------------------------------------------------------- specification
\* The settlements the _start activation awaits.
LoopStep ==
  \/ \E h \in Hashes : CreateJobResolve(h)
  \/ CreateJobReject
  \/ \E n \in NotFound..MaxNonce : WorkerSliceResolve(n)
  \/ \E n \in NotFound..MaxNonce : FindNonceResolve(n)
  \/ SearchReject
  \/ \E e \in BOOLEAN : ChainAddResolve(e)
  \/ \E t \in ErrorTypes : ChainAddReject(t)

\* The continuations of a stop() call.
StopStep ==
  \/ \E c \in Callers : LockGranted(c)
  \/ \E c \in Callers : StopResume(c)

Next ==
  \/ Start
  \/ StartRejected
  \/ LoopStep
  \/ \E c \in Callers : Stop(c)
  \/ StopStep
  \/ \E h \in Hashes : ChainTip(h)
  \/ NotifyEntry
  \/ \E d \in TickSteps : Tick(d)

\* Under the supervisor's specifications no unit is called apart.
UnitsIdle == kernel = NotCalled /\ search = NotCalled /\ stake = NotCalled

\* The staker after construction, nothing called yet.
SupervisorInit == Init /\ UnitsIdle

Spec == SupervisorInit /\ [][Next]_vars

\* Every awaited createJob, slice, search and chain.add settles, and every
\* resumable stop() continuation runs.
FairSpec == Spec /\ WF_vars(LoopStep) /\ WF_vars(StopStep)

\* ------------------------------------------------ the STDJob interface
\* A holder of STDJob objects (createJob, mineBlock and the 'status' event
\* hand them out) calling their methods in any order.

\* The block attempt.commitCnTxTime(nTime, stakeCoin) returns for job j.
StakeBlock(j, nTime, coin) == <<j, nTime, coin>>

StakeTimes == {0, 16}
\* No method of STDJob reads attempt.prevBlock: one value is enough here.
JobHashes == {1}
Coins == {1, 2}

\* createJob (lines 271-274): a new STDJob on the block with hash h.
CreateJob(h) ==
  /\ njobs < MaxJobs
  /\ njobs' = njobs + 1
  /\ jobs' = jobs @@ ((njobs + 1) :> STDJob(h, now))
  /\ thrown' = NoError
  /\ Silent
  /\ UNCHANGED <<supervisor, workers, units, loopVars, stopVars, now, errors>>

\* STDJob.prototype.commit (lines 620-633).
JobCommit(j, nonce) ==
  /\ j \in DOMAIN jobs
  /\ IF canCommit(jobs[j])
       THEN /\ jobs' = [jobs EXCEPT ![j] = commit(jobs[j])]
            /\ mined' = Block(j, jobs[j], nonce)
            /\ thrown' = NoError
       ELSE /\ thrown' = "Job already committed."
            /\ mined' = NoBlock
            /\ UNCHANGED jobs
  /\ event' = NoEvent
  /\ logged' = NoBlock
  /\ settled' = "none"
  /\ UNCHANGED <<supervisor, njobs, workers, units, loopVars, stopVars, now, errors>>

\* STDJob.prototype.commitCnTxTime (lines 641-646).
JobCommitCnTxTime(j, nTime, coin) ==
  /\ j \in DOMAIN jobs
  /\ IF canCommit(jobs[j])
       THEN /\ jobs' = [jobs EXCEPT ![j] = commit(jobs[j])]
            /\ mined' = StakeBlock(j, nTime, coin)
            /\ thrown' = NoError
       ELSE /\ thrown' = "Job already committed."
            /\ mined' = NoBlock
            /\ UNCHANGED jobs
  /\ event' = NoEvent
  /\ logged' = NoBlock
  /\ settled' = "none"
  /\ UNCHANGED <<supervisor, njobs, workers, units, loopVars, stopVars, now, errors>>

\* STDJob.prototype.destroy (lines 698-701).
JobDestroy(j) ==
  /\ j \in DOMAIN jobs
  /\ IF jobs[j].destroyed
       THEN thrown' = "Job already destroyed." /\ UNCHANGED jobs
       ELSE /\ jobs' = [jobs EXCEPT ![j] = destroy(jobs[j])]
            /\ thrown' = NoError
  /\ Silent
  /\ UNCHANGED <<supervisor, njobs, workers, units, loopVars, stopVars, now, errors>>

\* STDJob.prototype.updateNonce (lines 687-692).
JobUpdateNonce(j) ==
  /\ j \in DOMAIN jobs
  /\ jobs[j].nonce1 * Nonce2Limit + jobs[j].nonce2 < MaxUpdates
  /\ jobs' = [jobs EXCEPT ![j] = updateNonce(jobs[j])]
  /\ thrown' = NoError
  /\ Silent
  /\ UNCHANGED <<supervisor, njobs, workers, units, loopVars, stopVars, now, errors>>

JobNext ==
  \/ \E h \in JobHashes : CreateJob(h)
  \/ \E j \in 1..MaxJobs, n \in {0, MaxNonce} : JobCommit(j, n)
  \/ \E j \in 1..MaxJobs, t \in StakeTimes, c \in Coins : JobCommitCnTxTime(j, t, c)
  \/ \E j \in 1..MaxJobs : JobDestroy(j)
  \/ \E j \in 1..MaxJobs : JobUpdateNonce(j)

JobSpec == SupervisorInit /\ [][JobNext]_vars

\* ------------------------------------------------- the kernel evaluator
\* Pos.prototype.checkStakeKernelHash called on its own.  An evaluation is
\* the record of its arguments and of the value the promise it returns
\* resolves with: prev.height, the coin (absent, or the height of its block
\* and the value of the output staked), the integer BN reads from the
\* hash256 of the serialized kernel fields, and the target
\* consensus.fromCompact(blkbits) returns.  The value of the output is not
\* among the fields hashed (lines 390-395).

\* The supervisor stands still while a unit is exercised.
Halted ==
  UNCHANGED <<supervisor, heap, workers, loopVars, stopVars, now, thrown,
              outputs, errors>>

\* A coin argument that is null or undefined.
NoCoin == [present |-> FALSE, height |-> 0, value |-> 0]

\* The coins a chain of height prevHeight holds.
CoinsAt(prevHeight) ==
  {NoCoin} \cup [present : {TRUE}, height : 0..prevHeight, value : 0..MaxValue]

\* No earlier evaluation to compare with.
NoEvaluation == [value |-> 0, result |-> FALSE, k |-> 0]

\* Mutant of tooYoung: the confirmation gate of line 382 is missing.
tooYoungNever(prevHeight, coin) == FALSE

\* Lines 377 and 382: the coin lacks confirmations at the height of the
\* block to build, prev.height + 1.
tooYoung(prevHeight, coin) ==
  (prevHeight + 1) - coin.height < STAKE_MIN_CONFIRMATIONS

\* Mutant of weight: the hash is multiplied by the value.
weightTimes(hash, value) == hash * value

\* Lines 398-400: hashProofOfStake.div(bgnValueIn), BN's truncating division.
weight(hash, value) == hash \div value

\* Mutant of weightWithin: the comparison is strict.
weightBelow(w, target) == w < target

\* Line 401: weight.cmp(bnTarget) <= 0.
weightWithin(w, target) == w <= target

\* Pos.prototype.checkStakeKernelHash (lines 376-403).
checkStakeKernelHash(prevHeight, target, coin, hash) ==
  IF ~coin.present THEN FALSE
  ELSE IF tooYoung(prevHeight, coin) THEN FALSE
  ELSE IF coin.value = 0 THEN FALSE
  ELSE weightWithin(weight(hash, coin.value), target)

KernelInit ==
  /\ Init
  /\ search = NotCalled
  /\ stake = NotCalled
  /\ \E p \in 0..MaxHeight :
       kernel \in [called : {FALSE}, prevHeight : {p}, coin : CoinsAt(p),
                   hash : 0..MaxHash, target : 0..MaxTarget,
                   result : {FALSE}, before : {NoEvaluation}]

\* The kernel check is called with the arguments drawn.
Evaluate ==
  /\ ~kernel.called
  /\ kernel' = [kernel EXCEPT
                  !.called = TRUE,
                  !.result = checkStakeKernelHash(kernel.prevHeight,
                               kernel.target, kernel.coin, kernel.hash)]
  /\ UNCHANGED <<search, stake>>
  /\ Halted

\* The kernel check is called again for a coin that differs from the one
\* of the last call only in its value, k times as large.
EvaluateScaled(k) ==
  /\ kernel.called
  /\ kernel.coin.present
  /\ k * kernel.coin.value <= MaxValue
  /\ LET coin == [kernel.coin EXCEPT !.value = k * kernel.coin.value]
     IN kernel' = [kernel EXCEPT
                     !.coin = coin,
                     !.before = [value |-> kernel.coin.value,
                                 result |-> kernel.result, k |-> k],
                     !.result = checkStakeKernelHash(kernel.prevHeight,
                                  kernel.target, coin, kernel.hash)]
  /\ UNCHANGED <<search, stake>>
  /\ Halted

KernelNext ==
  \/ Evaluate
  \/ \E k \in 1..MaxValue : EvaluateScaled(k)

KernelSpec == KernelInit /\ [][KernelNext]_vars

\* ------------------------------------------------------ the nonce search
\* mineAsync called on one job.  The header of the job decides which nonces
\* win: winners is that set for the header findNonceAsync reads at line 474
\* (or findNonce at line 408); the header changes with the extra nonce, so a
\* new set is drawn when the search starts again.

\* The primitive mine(data, target, min, max): the lowest winning nonce of
\* the slice [lo, hi), or -1.
mine(winners, lo, hi) ==
  LET hits == {n \in winners : lo <= n /\ n < hi}
  IN IF hits = {} THEN NotFound
     ELSE CHOOSE n \in hits : \A m \in hits : n <= m

\* STDJob.prototype.getHashes (lines 709-712).
getHashes(jb, nonce) ==
  LET extra == jb.nonce1 * Nonce2Limit + jb.nonce2
  IN extra * MaxNonce + nonce

\* sendStatus (lines 562-577): the 'status' event, with the job's extra
\* nonce at the time and the hash count reported.
sendStatus(jb, nonce) ==
  [nonce1 |-> jb.nonce1, nonce2 |-> jb.nonce2, nonce |-> nonce,
   hashes |-> getHashes(jb, nonce)]

\* The loop condition of lines 415 and 484: max <= 0xffffffff.
sliceInRange(m) == m <= MaxNonce

\* findNonce (lines 407-428) from the slice that ends at m on: the nonce
\* returned, the slices asked for and the 'status' events emitted.
RECURSIVE findNonce(_, _, _, _)
findNonce(jb, winners, m, run) ==
  IF sliceInRange(m)
    THEN LET nonce == mine(winners, m - INTERVAL, m)
             asked == Append(run.asked, <<m - INTERVAL, m>>)
         IN IF nonce # NotFound
              THEN [nonce |-> nonce, asked |-> asked, statuses |-> run.statuses]
              ELSE findNonce(jb, winners, m + INTERVAL,
                             [asked |-> asked,
                              statuses |-> Append(run.statuses, sendStatus(jb, m))])
    ELSE [nonce |-> NotFound, asked |-> run.asked, statuses |-> run.statuses]

\* The only job of this unit.
TheJob == 1

\* findNonceAsync up to its first await (lines 474-485): with workers the
\* first slice is asked for.
SearchStart(jb, winners) ==
  [job |-> jb, winners |-> winners, pc |-> "search",
   max |-> IF workers THEN INTERVAL ELSE 0,
   asked |-> IF workers THEN << <<0, INTERVAL>> >> ELSE <<>>,
   nonce |-> NotFound, block |-> NoBlock, statuses |-> <<>>,
   updates |-> 0]

SearchInit ==
  /\ Init
  /\ kernel = NotCalled
  /\ stake = NotCalled
  /\ \E winners \in SUBSET (0..MaxNonce) :
       search = SearchStart(STDJob(TheJob, 0), winners)

\* this.workers.mine resolves (lines 485-496).
MineSlice ==
  /\ search.pc = "search"
  /\ workers
  /\ LET nonce == mine(search.winners, search.max - INTERVAL, search.max)
     IN IF nonce # NotFound \/ search.job.destroyed
          THEN search' = [search EXCEPT !.pc = "returned", !.nonce = nonce,
                                        !.statuses = <<>>]
          ELSE IF sliceInRange(search.max + INTERVAL)
                 THEN search' = [search EXCEPT
                        !.max = search.max + INTERVAL,
                        !.asked = Append(search.asked,
                                         <<search.max, search.max + INTERVAL>>),
                        !.statuses = <<sendStatus(search.job, search.max)>>]
                 ELSE search' = [search EXCEPT
                        !.pc = "returned", !.nonce = NotFound,
                        !.statuses = <<sendStatus(search.job, search.max)>>]
  /\ UNCHANGED <<kernel, stake>>
  /\ Halted

\* Without workers findNonceAsync returns findNonce(job) (lines 481-482).
FindNonce ==
  /\ search.pc = "search"
  /\ ~workers
  /\ LET run == findNonce(search.job, search.winners, INTERVAL,
                          [asked |-> <<>>, statuses |-> <<>>])
     IN search' = [search EXCEPT !.pc = "returned", !.nonce = run.nonce,
                                 !.asked = run.asked,
                                 !.statuses = run.statuses]
  /\ UNCHANGED <<kernel, stake>>
  /\ Halted

\* Mutant of SearchResume: after a search without a hit mineAsync starts
\* the next one without updateNonce.
SearchResumeSameNonce ==
  /\ search.pc = "returned"
  /\ IF search.nonce # NotFound
       THEN search' = [search EXCEPT
              !.pc = "done", !.job = commit(search.job),
              !.block = Block(TheJob, search.job, search.nonce),
              !.statuses = <<>>]
       ELSE IF search.job.destroyed
         THEN search' = [search EXCEPT !.pc = "done", !.statuses = <<>>]
         ELSE /\ search.updates < MaxSearches
              /\ \E winners \in SUBSET (0..MaxNonce) :
                   search' = [SearchStart(search.job, winners) EXCEPT
                      !.statuses = <<sendStatus(search.job, 0)>>,
                      !.updates = search.updates + 1]
  /\ UNCHANGED <<kernel, stake>>
  /\ Halted

\* mineAsync (lines 540-553) from the point findNonceAsync has returned.
SearchResume ==
  /\ search.pc = "returned"
  /\ IF search.nonce # NotFound
       THEN search' = [search EXCEPT
              !.pc = "done", !.job = commit(search.job),
              !.block = Block(TheJob, search.job, search.nonce),
              !.statuses = <<>>]
       ELSE IF search.job.destroyed
         THEN search' = [search EXCEPT !.pc = "done", !.statuses = <<>>]
         ELSE /\ search.updates < MaxSearches
              /\ \E winners \in SUBSET (0..MaxNonce) :
                   search' = [SearchStart(updateNonce(search.job), winners) EXCEPT
                      !.statuses = <<sendStatus(updateNonce(search.job), 0)>>,
                      !.updates = search.updates + 1]
  /\ UNCHANGED <<kernel, stake>>
  /\ Halted

\* job.destroy() by the 'tip' handler, notifyEntry or _stop while the search
\* is under way.
SearchDestroy ==
  /\ search.pc = "search"
  /\ ~search.job.destroyed
  /\ search' = [search EXCEPT !.job = destroy(search.job), !.statuses = <<>>]
  /\ UNCHANGED <<kernel, stake>>
  /\ Halted

SearchStep ==
  \/ MineSlice
  \/ FindNonce
  \/ SearchResume

SearchNext ==
  \/ SearchStep
  \/ SearchDestroy

SearchSpec == SearchInit /\ [][SearchNext]_vars

\* Every slice asked of the worker pool resolves, and every continuation
\* that can run does.
FairSearchSpec == SearchSpec /\ WF_vars(SearchStep)

\* ---------------------------------------------------- the stake searcher
\* doStake (lines 360-399) and doStakeAsync (lines 313-352, the same body,
\* without an await) called on one job.  The call is synchronous; a step is
\* one pass of its outer loop, and the clock moves between passes.  Nothing
\* else runs while the call does, so the job is destroyed before the call
\* or not at all.

\* util.now() & ~15
truncated(t) == t - (t % STAKE_GRID)

\* Lines 326-328: what reading prevOut.value does for the first coin of
\* the pass.  prevOut is declared at line 362 and never assigned.
prevOutValue == "TypeError: Cannot read property 'value' of undefined"

StakeInit ==
  /\ Init
  /\ kernel = NotCalled
  /\ search = NotCalled
  /\ \E n \in 0..MaxCoins, d \in BOOLEAN :
       stake = [pc |-> "loop", coins |-> n, destroyed |-> d, nTime |-> 0,
                passes |-> 0, scanned |-> FALSE, checks |-> 0,
                block |-> NoBlock, error |-> NoError]

\* Lines 369-370 (322-323): the condition of the continue.
skipPass(nTime, t) == nTime # 0 /\ nTime + STAKE_GRID = t

\* One pass of the loop of lines 368-386 (321-339).  A pass not skipped
\* sets nTime and goes through the coins (scanned).  With no coin the inner
\* loop has no pass and foundKernel stays false; with a coin the first pass
\* of the inner loop throws at line 375, before the kernel check of line
\* 376 (checks stays 0) and before commitCnTxTime (line 388).  No line
\* reads job.destroyed.
StakePass ==
  /\ stake.pc = "loop"
  /\ stake.passes < MaxPasses
  /\ IF skipPass(stake.nTime, now)
       THEN stake' = [stake EXCEPT !.passes = stake.passes + 1,
                                   !.scanned = FALSE]
       ELSE IF stake.coins = 0
         THEN stake' = [stake EXCEPT !.passes = stake.passes + 1,
                                     !.nTime = truncated(now),
                                     !.scanned = TRUE]
         ELSE stake' = [stake EXCEPT !.passes = stake.passes + 1,
                                     !.nTime = truncated(now),
                                     !.scanned = TRUE,
                                     !.pc = "threw", !.error = prevOutValue]
  /\ UNCHANGED <<kernel, search>>
  /\ Halted

\* util.now() advances by a second.
StakeTick ==
  /\ now < MaxStakeTime
  /\ now' = now + 1
  /\ UNCHANGED units
  /\ UNCHANGED <<supervisor, heap, workers, loopVars, stopVars, thrown,
                 outputs, errors>>

StakeNext ==
  \/ StakePass
  \/ StakeTick

StakeSpec == StakeInit /\ [][StakeNext]_vars

\* ================================================================ claims

\* C1: every stop() that enters _stop while running is true eventually
\* returns with running = false, stopping = false and no current job,
\* provided every awaited createJob, slice and chain.add settles.
C1_StopReturns ==
  \A c \in Callers :
    (stopPc[c] = "granted" /\ running)
      ~> (stopPc[c] = "idle" /\ ~running /\ ~stopping /\ job = NoJob)

\* C2: once a job's destroyed flag is set, no later step returns a block of
\* that job from commit or mineAsync.
C2_NoBlockAfterDestroy ==
  [][\A j \in DOMAIN jobs :
       jobs[j].destroyed => (mined' = NoBlock \/ mined'[1] # j)]_vars

\* C3: a job commits at most once.  The committed flag never goes back to
\* false, and on a job that has committed every further commit(nonce) or
\* commitCnTxTime(nTime, coin) raises 'Job already committed.' and returns
\* no block.
C3_SingleCommit ==
  [][\A j \in DOMAIN jobs :
       jobs[j].committed =>
         /\ jobs'[j].committed
         /\ mined' = NoBlock \/ mined'[1] # j
         /\ (\/ \E n \in 0..MaxNonce : JobCommit(j, n)
             \/ \E t \in StakeTimes, c \in Coins : JobCommitCnTxTime(j, t, c))
              => thrown' = "Job already committed." /\ mined' = NoBlock]_vars

\* A committed job was asked to commit again.
C3_Witness ==
  /\ thrown = "Job already committed."
  /\ \E j \in DOMAIN jobs : jobs[j].committed

\* C4: stopping implies running; the pair (running, stopping) changes only
\* idle -> running by start, running -> stopping by stop, and
\* stopping -> idle by the completion of stop; start() while running is
\* rejected by its assertion and changes nothing.
C4_Lifecycle ==
  [][/\ stopping => running
     /\ stopping' => running'
     /\ <<running, stopping>>' # <<running, stopping>> =>
          \/ ~running /\ ~stopping /\ running' /\ ~stopping' /\ Start
          \/ /\ running /\ ~stopping /\ running' /\ stopping'
             /\ \E c \in Callers : LockGranted(c)
          \/ /\ running /\ stopping /\ ~running' /\ ~stopping'
             /\ \E c \in Callers : StopResume(c)
     /\ running /\ (Start \/ StartRejected) =>
          thrown' = "Miner is already running." /\ UNCHANGED supervisor]_vars

\* A stop has completed: the supervisor is idle again after a loop ran.
C4_Witness == ~running /\ ~stopping /\ loopPc = "done"

\* C5: every block commit returns inside the supervisor loop is passed to
\* chain.add, or its raw serialization is logged, by the time the loop
\* leaves the step that produced it.
C5_NoSilentDrop ==
  [][mined' # NoBlock =>
       (loopPc' = "add" /\ block' = mined') \/ logged' = mined']_vars

\* C6: a 'tip' event whose prevBlock equals that of the current job leaves
\* that job destroyed, with the loop where it was (so before it next creates
\* a job), and a destroyed job stays destroyed; a 'tip' event with another
\* prevBlock, or with no current job, changes no job.
C6_TipInvalidation ==
  [][/\ \A h \in Hashes : ChainTip(h) =>
          IF job # NoJob /\ jobs[job].prevBlock = h
            THEN jobs'[job].destroyed /\ job' = job /\ loopPc' = loopPc
            ELSE UNCHANGED <<job, jobs>>
     /\ \A j \in DOMAIN jobs \cap DOMAIN jobs' :
          jobs[j].destroyed => jobs'[j].destroyed]_vars

\* The current job of a running search was destroyed by a 'tip' event.
C6_Witness ==
  /\ running /\ ~stopping /\ loopPc = "search"
  /\ job # NoJob /\ jobs[job].destroyed

\* C7: notifyEntry destroys the current job and clears this.job exactly when
\* running, a current job exists and now - job.start > 10; otherwise it
\* changes nothing.
C7_NotifyEntry ==
  [][NotifyEntry =>
       IF running /\ job # NoJob /\ now - jobs[job].start > STALE_AGE
         THEN jobs'[job].destroyed /\ job' = NoJob
         ELSE UNCHANGED <<job, jobs>>]_vars

\* C8: a 'block' event is emitted only in the step in which chain.add
\* returned an entry for the block it carries, with stopping not set; never
\* when chain.add threw, returned null, or stopping was set by then.
C8_BlockAfterAccept ==
  [][/\ event'[1] = "block" =>
          /\ loopPc = "add" /\ settled' = "entry" /\ ~stopping
          /\ block # NoBlock /\ event'[2] = block
     /\ loopPc = "add" /\ (settled' \in {"null", "VerifyError", "Error"} \/ stopping)
          => event'[1] # "block"]_vars

\* A 'block' event has just been emitted.
C8_Witness == event[1] = "block" /\ settled = "entry"

\* C9: when chain.add rejects with a VerifyError and stopping is not set, no
\* 'error' event is emitted, the loop goes on, and its next step is the
\* creation of a job, which is a new one.
C9_VerifyErrorContinues ==
  [][/\ settled' = "VerifyError" /\ ~stopping =>
          /\ event' = NoEvent /\ errors' = errors
          /\ loopPc' = "createJob" /\ loops' = loops /\ job' = NoJob
     /\ settled' = "job" =>
          /\ njobs' = njobs + 1 /\ job' = njobs'
          /\ ~jobs'[job'].destroyed /\ ~jobs'[job'].committed]_vars

\* chain.add has just rejected a block with a VerifyError, not stopping.
C9_Witness == settled = "VerifyError" /\ ~stopping /\ loopPc = "createJob"

\* C10: an exception from createJob, from the search, or another than a
\* VerifyError from chain.add ends the loop and resolves a pending stopped
\* signal; it emits exactly one 'error' event when stopping is not set and
\* none when it is; the ended loop creates no further job.
C10_ErrorTerminates ==
  [][/\ settled' \in {"createJobError", "searchError", "Error"} =>
          /\ loopPc' = "done"
          /\ njobs' = njobs
          /\ stopJob' = NoCaller
          /\ stopJob # NoCaller => stopPc'[stopJob] = "resolved"
          /\ IF stopping THEN event' = NoEvent /\ errors' = errors
                         ELSE event' = ErrorEvent /\ errors' = errors + 1
     /\ loopPc = "done" /\ running =>
          loopPc' = "done" /\ njobs' = njobs /\ errors' = errors]_vars

\* The search has just thrown while not stopping.
C10_Witness ==
  /\ settled = "searchError" /\ event = ErrorEvent
  /\ loopPc = "done" /\ errors = 1

\* C11: stop() calls are mutually exclusive.  At most one caller is inside
\* the _stop body at a time, no _stop run raises 'Miner is already
\* stopping.', and a _stop run that finds running = false returns without
\* changing the supervisor's state.
C11_StopExclusive ==
  [][/\ Cardinality({c \in Callers :
                       stopPc[c] \in {"granted", "waiting", "resolved"}}) <= 1
     /\ \A c \in Callers :
          LockGranted(c) =>
            /\ thrown' # "Miner is already stopping."
            /\ ~running => UNCHANGED <<supervisor, jobs>> /\ thrown' = NoError]_vars

\* C12 as stated: the kernel check returns false whenever
\* tip.height - coin.height < STAKE_MIN_CONFIRMATIONS, whatever the hash,
\* the value, the target and the time.
C12_YoungCoinRejected ==
  (/\ kernel.called /\ kernel.coin.present
   /\ kernel.prevHeight - kernel.coin.height < STAKE_MIN_CONFIRMATIONS)
    => ~kernel.result

\* C12, amended: the kernel check returns false whenever
\* (tip.height + 1) - coin.height < STAKE_MIN_CONFIRMATIONS, whatever the
\* hash, the value, the target and the time; the depth is counted at the
\* height of the block being built.
C12_ConfirmationGate ==
  (/\ kernel.called /\ kernel.coin.present
   /\ (kernel.prevHeight + 1) - kernel.coin.height < STAKE_MIN_CONFIRMATIONS)
    => ~kernel.result

\* A coin one confirmation short was refused although its weight is within
\* the target.
C12_Witness ==
  /\ kernel.called /\ kernel.coin.present /\ ~kernel.result
  /\ (kernel.prevHeight + 1) - kernel.coin.height = STAKE_MIN_CONFIRMATIONS - 1
  /\ kernel.coin.value > 0
  /\ kernel.hash \div kernel.coin.value <= kernel.target

C14_Proportionality ==
  (/\ kernel.called /\ kernel.before.k >= 1 /\ kernel.before.result
   /\ kernel.coin.value = kernel.before.k * kernel.before.value)
    => kernel.result

\* The check succeeded for a coin and again for one of a multiple of its
\* value.
C14_Witness ==
  /\ kernel.called /\ kernel.before.k >= 2 /\ kernel.before.result
  /\ kernel.before.value > 0
  /\ kernel.coin.value = kernel.before.k * kernel.before.value
  /\ kernel.result

\* C15: the hash count every 'status' event reports for the job state
\* (n1, n2) and the nonce is (n1 * 2^32 + n2) * 2^32 + nonce.
C15_HashCount ==
  \A i \in 1..Len(search.statuses) :
    LET st == search.statuses[i]
    IN st.hashes =
         (st.nonce1 * Nonce2Limit + st.nonce2) * Nonce2Limit + st.nonce

\* C16: after k calls of updateNonce on a fresh job 0 <= n2 < 2^32 and
\* n1 * 2^32 + n2 = k; a call increments n2, or, where n2 would reach
\* 2^32, resets it to 0 and increments n1.
C16_ExtraNonce ==
  [][/\ 0 <= search.job.nonce2 /\ search.job.nonce2 < Nonce2Limit
     /\ search.job.nonce1 * Nonce2Limit + search.job.nonce2 = search.updates
     /\ 0 <= search'.job.nonce2 /\ search'.job.nonce2 < Nonce2Limit
     /\ search'.job.nonce1 * Nonce2Limit + search'.job.nonce2 = search'.updates
     /\ search'.updates # search.updates =>
          /\ search'.updates = search.updates + 1
          /\ IF search.job.nonce2 + 1 = Nonce2Limit
               THEN /\ search'.job.nonce2 = 0
                    /\ search'.job.nonce1 = search.job.nonce1 + 1
               ELSE /\ search'.job.nonce2 = search.job.nonce2 + 1
                    /\ search'.job.nonce1 = search.job.nonce1]_vars

\* nonce2 has rolled over and been incremented again.
C16_Witness ==
  /\ search.job.nonce1 = 1 /\ search.job.nonce2 = 1
  /\ search.updates = Nonce2Limit + 1

\* C17: a search that returns for a job not destroyed has asked for the
\* slices [k * INTERVAL, (k + 1) * INTERVAL) in ascending k from 0, and
\* returns the lowest winning nonce of 0 .. 2^32 - 1, or -1 when no nonce of
\* that space wins.
C17_SearchComplete ==
  (search.pc = "returned" /\ ~search.job.destroyed) =>
    /\ \A i \in 1..Len(search.asked) :
         search.asked[i] = <<(i - 1) * INTERVAL, i * INTERVAL>>
    /\ search.nonce = mine(search.winners, 0, MaxNonce + 1)

\* C18: a search in which every slice misses ends with -1, no slice
\* reaching past 2^32; for a job not destroyed mineAsync then calls
\* updateNonce once, emits one 'status' event and starts the search again
\* at slice 0.
C18_AllMissRestart ==
  /\ [][/\ \A i \in 1..Len(search.asked) :
            /\ search.asked[i][2] <= Nonce2Limit
            /\ i <= Nonce2Limit \div INTERVAL
        /\ (/\ search.pc = "returned" /\ search.nonce = NotFound
            /\ ~search.job.destroyed /\ search' # search) =>
             /\ search'.updates = search.updates + 1
             /\ search'.job.nonce1 * Nonce2Limit + search'.job.nonce2
                  = search.job.nonce1 * Nonce2Limit + search.job.nonce2 + 1
             /\ Len(search'.statuses) = 1
             /\ search'.statuses[1].nonce = 0
             /\ search'.pc = "search"
             /\ search'.block = NoBlock
             /\ search'.asked = IF workers THEN << <<0, INTERVAL>> >> ELSE <<>>
        /\ (search.pc = "search" /\ search.asked = <<>> /\ search'.asked # <<>>) =>
             search'.asked[1][1] = 0]_vars
  /\ (search.pc = "search" /\ mine(search.winners, 0, Nonce2Limit) = NotFound)
       ~> (search.pc = "returned" /\ search.nonce = NotFound)

\* A search has missed on every slice and the next one is under way.
C18_Witness ==
  /\ search.pc = "search" /\ search.updates >= 1
  /\ ~search.job.destroyed
  /\ Len(search.statuses) = 1 /\ search.statuses[1].nonce = 0
  /\ search.asked = IF workers THEN << <<0, INTERVAL>> >> ELSE <<>>

\* C19: every block doStake or doStakeAsync returns was committed with a
\* stake time that is a multiple of 16.
C19_TimeQuantized ==
  stake.block # NoBlock => stake.block[2] % STAKE_GRID = 0

\* The stake searcher returns no block: every call ends at line 375 or
\* stays in its loop.
C19_NoBlock == stake.block = NoBlock /\ stake.pc # "returned"

\* C20: when a slice of the worker pool returns -1 for a job destroyed while
\* the slice was in flight, no further slice is asked for, mineAsync returns
\* no block and neither updates nor commits the job, and the loop, when
\* not stopping, goes on to create a new job.
C20_DestroyedSliceAborts ==
  [][(/\ loopPc = "search" /\ workers /\ jobs[mineJob].destroyed
      /\ settled' = "miss") =>
       /\ loopPc' # "search"
       /\ mined' = NoBlock
       /\ \A j \in DOMAIN jobs' : jobs'[j] = jobs[j]
       /\ njobs' = njobs
       /\ IF stopping THEN loopPc' = "done"
                      ELSE loopPc' = "createJob" /\ job' = NoJob]_vars

\* A slice has just missed for a job destroyed in flight, before the last
\* slice, and the loop is about to create the next job.
C20_Witness ==
  /\ workers /\ settled = "miss" /\ ~stopping
  /\ loopPc = "createJob" /\ njobs >= 1 /\ mined = NoBlock

\* C21: destroy() is never called on a job whose destroyed flag is set: no
\* step raises 'Job already destroyed.', and a flag once set stays set.
C21_NoDoubleDestroy ==
  [][/\ thrown' # "Job already destroyed."
     /\ \A j \in DOMAIN jobs \cap DOMAIN jobs' :
          jobs[j].destroyed => jobs'[j].destroyed]_vars

\* C22: the stake search loop exits once its job is destroyed: a pass on a
\* destroyed job is the last one, and no block is committed.
C22_ExitOnDestroy ==
  [][(/\ stake.pc = "loop" /\ stake.destroyed
      /\ stake'.passes = stake.passes + 1) =>
       /\ stake'.pc # "loop"
       /\ stake'.block = NoBlock]_vars

C24_IdleNotRunning ==
  /\ (loops = 0 /\ \A c \in Callers : stopPc[c] = "idle") => ~running
  /\ loops <= 1

====
